---- MODULE Spec2Model ----
(***************************************************************************)
(* A model of the reviewer agent: the post-commit hook installer           *)
(* (install_hooks.py) and the review pipeline (reviewer/agent.py with      *)
(* diff_collector.py, lint_runner.py and config.py).                       *)
(*                                                                         *)
(* Three specifications share the module:                                  *)
(*   SpecHook    runs of the installer's main over a small file system;    *)
(*   SpecReview  one run of run_review, step by step;                      *)
(*   SpecTrunc   the pure function _truncate on bounded inputs.            *)
(* File contents are sequences of chunks (strings); "x in content" of the  *)
(* code is membership of the chunk.  Long texts of the review pipeline are *)
(* represented by their lengths.                                           *)
(***************************************************************************)
EXTENDS Integers, Sequences, FiniteSets, TLC

VARIABLES
    \* ---- installer ----
    fs,          \* repository path -> [git, hooks, hook: [exists, content, exec]]
    template,    \* content of hooks/post-commit.template
    orig,        \* the file system before the first run of the installer
    args,        \* command line of the last run of main
    calls,       \* hook actions of the last run, in order, with what they printed
    exitStatus,  \* exit status of the last run
    runs,        \* number of runs of main so far
    \* ---- review pipeline ----
    env,         \* the configuration read by reviewer/config.py
    pc,          \* position of the run of agent.main / run_review
    client,      \* the model client built by _build_model_client
    commit,      \* the CommitInfo collected
    lint,        \* text returned by run_ruff_check
    fmt,         \* text returned by run_ruff_format_check
    message,     \* the user message built by _build_review_message
    result,      \* the string returned by run_review
    raised,      \* the exception that left run_review uncaught, or "none"
    effects,     \* [git, ruff, net]: subprocesses and network calls made
    printed,     \* what main printed after run_review returned
    \* ---- _truncate ----
    text,        \* input text
    budget,      \* input budget
    out,         \* result of _truncate
    tpc          \* "input" before the call, "output" after it

hookVars == <<fs, template, orig, args, calls, exitStatus, runs>>
reviewVars == <<env, pc, client, commit, lint, fmt, message, result, raised, effects, printed>>
truncVars == <<text, budget, out, tpc>>
vars == <<hookVars, reviewVars, truncVars>>

Max(a, b) == IF a >= b THEN a ELSE b
Min(a, b) == IF a <= b THEN a ELSE b

(***************************************************************************)
(*                      install_hooks.py                                   *)
(***************************************************************************)

\* Bounds of the installer model.
MaxRuns == 2
MaxArgs == 2

HOOK_NAME == "post-commit"
MARKER == "# REVIEWER_AGENT_HOOK"
PROJECT_ROOT == "/opt/reviewer_agent"
PYTHON_BIN == "/opt/reviewer_agent/.venv/bin/python"

\* The directory the installer is started in, and the repositories below it.
Cwd == "/w"
Repos == {"/w/a", "/w/b"}
\* Positional arguments: a relative and an absolute path.
ArgPaths == {"a", "/w/b"}
NoScan == "none"
MissingDir == "/missing"
ScanDirs == {NoScan, Cwd, MissingDir}

\* Path(r).resolve(): a relative path is taken from the current directory.
Resolve(p) == IF p = "a" THEN "/w/a" ELSE p

\* The children of a directory, in sorted order (sorted(scan_dir.iterdir())).
Children(d) == IF d = Cwd THEN <<"/w/a", "/w/b">> ELSE <<>>

NoHook == [exists |-> FALSE, content |-> <<>>, exec |-> FALSE]
UserHook == <<"#!/bin/sh\n", "make check\n">>

\* hooks/post-commit.template: with or without the marker line in it.
TemplateBody ==
    <<"cd ", "{{REVIEWER_AGENT_DIR}}", " && ", "{{PYTHON}}", " -m reviewer.agent \"$REPO\"\n">>
Templates == {TemplateBody, <<MARKER, "\n">> \o TemplateBody}

\* MARKER in content
HasMarker(content) == \E i \in 1..Len(content) : content[i] = MARKER

\* _rendered_hook(): the template with its two placeholders replaced.
_rendered_hook ==
    [i \in 1..Len(template) |->
        IF template[i] = "{{REVIEWER_AGENT_DIR}}" THEN PROJECT_ROOT
        ELSE IF template[i] = "{{PYTHON}}" THEN PYTHON_BIN
        ELSE template[i]]

\* find_repos(scan_dir): the children with a .git entry; iterdir raises on a
\* directory that does not exist.
RECURSIVE FilterGit(_, _)
FilterGit(f, s) ==
    IF s = <<>> THEN <<>>
    ELSE (IF f[Head(s)].git THEN <<Head(s)>> ELSE <<>>) \o FilterGit(f, Tail(s))

find_repos(f, scan_dir) ==
    IF scan_dir = MissingDir
    THEN [raised |-> TRUE, repos |-> <<>>]
    ELSE [raised |-> FALSE, repos |-> FilterGit(f, Children(scan_dir))]

\* What install_hook prints: which branch it took.
InstallBranch(f, repo) ==
    IF f[repo].hook.exists
    THEN IF HasMarker(f[repo].hook.content) THEN "already installed" ELSE "appended"
    ELSE "installed"

\* install_hook(repo): the file system after the call.
install_hook(f, repo) ==
    LET old == f[repo].hook
        branch == InstallBranch(f, repo)
        new == CASE branch = "already installed" -> old
                 [] branch = "appended" ->
                        [exists |-> TRUE,
                         content |-> old.content \o <<"\n">> \o _rendered_hook \o <<"\n">>,
                         exec |-> TRUE]
                 [] OTHER ->
                        [exists |-> TRUE,
                         content |-> <<"#!/usr/bin/env bash\n", MARKER, "\n">>
                                        \o _rendered_hook \o <<"\n">>,
                         exec |-> TRUE]
    IN  [f EXCEPT ![repo] = [git |-> TRUE, hooks |-> TRUE, hook |-> new]]

\* What uninstall_hook prints: which branch it took.
UninstallBranch(f, repo) ==
    IF ~f[repo].hook.exists THEN "no hook"
    ELSE IF ~HasMarker(f[repo].hook.content) THEN "skipped"
    ELSE "removed"

\* Faulty variant of uninstall_hook: the marker is not looked for.
uninstall_hook_unchecked(f, repo) ==
    IF f[repo].hook.exists
    THEN [f EXCEPT ![repo].hook = NoHook]
    ELSE f

\* uninstall_hook(repo): the file system after the call.
uninstall_hook(f, repo) ==
    IF UninstallBranch(f, repo) = "removed"
    THEN [f EXCEPT ![repo].hook = NoHook]
    ELSE f

\* The loop of main over the repositories: the file system after it and the
\* calls made.
RECURSIVE RunActions(_, _, _)
RunActions(f, repos, uninstall) ==
    IF repos = <<>> THEN [fs |-> f, calls |-> <<>>]
    ELSE LET repo == Head(repos) IN
         IF ~f[repo].git
         THEN RunActions(f, Tail(repos), uninstall)
         ELSE LET g == IF uninstall THEN uninstall_hook(f, repo) ELSE install_hook(f, repo)
                  call == [op |-> IF uninstall THEN "uninstall" ELSE "install",
                           repo |-> repo,
                           printed |-> IF uninstall THEN UninstallBranch(f, repo)
                                                    ELSE InstallBranch(f, repo)]
                  rest == RunActions(g, Tail(repos), uninstall)
              IN  [fs |-> rest.fs, calls |-> <<call>> \o rest.calls]

\* The list main assembles: the scanned repositories, then the positional ones.
RepoList(f, a) ==
    LET scanned == IF a.scan # NoScan THEN find_repos(f, a.scan)
                   ELSE [raised |-> FALSE, repos |-> <<>>]
    IN  [raised |-> scanned.raised,
         repos |-> scanned.repos \o [i \in 1..Len(a.repos) |-> Resolve(a.repos[i])]]

\* Faulty variant of NoRepos: the empty list is not noticed.
NoRepos_never(repos) == FALSE

\* Is the assembled list empty ("if not repos")?
NoRepos(repos) == repos = <<>>

\* main(): an uncaught exception ends the interpreter with status 1.
main(f, a) ==
    LET l == RepoList(f, a) IN
    IF l.raised THEN [fs |-> f, calls |-> <<>>, status |-> 1]
    ELSE IF NoRepos(l.repos) THEN [fs |-> f, calls |-> <<>>, status |-> 1]
    ELSE LET r == RunActions(f, l.repos, a.uninstall)
         IN  [fs |-> r.fs, calls |-> r.calls, status |-> 0]

ArgLists == UNION {[1..n -> ArgPaths] : n \in 0..MaxArgs}
Args == [repos : ArgLists, scan : ScanDirs, uninstall : BOOLEAN]
NoArgs == [repos |-> <<>>, scan |-> NoScan, uninstall |-> FALSE]

\* The states a repository directory can be in before the installer runs.
RepoStates ==
    {[git |-> FALSE, hooks |-> FALSE, hook |-> NoHook],
     [git |-> TRUE, hooks |-> FALSE, hook |-> NoHook],
     [git |-> TRUE, hooks |-> TRUE, hook |-> NoHook]}
    \cup {[git |-> TRUE, hooks |-> TRUE,
           hook |-> [exists |-> TRUE, content |-> UserHook, exec |-> x]] : x \in BOOLEAN}

HookIdle ==
    /\ fs = [r \in Repos |-> [git |-> FALSE, hooks |-> FALSE, hook |-> NoHook]]
    /\ template = TemplateBody
    /\ orig = fs
    /\ args = NoArgs
    /\ calls = <<>>
    /\ exitStatus = 0
    /\ runs = 0

InitHook ==
    /\ fs \in [Repos -> RepoStates]
    /\ template \in Templates
    /\ orig = fs
    /\ args = NoArgs
    /\ calls = <<>>
    /\ exitStatus = 0
    /\ runs = 0

Main(a) ==
    /\ runs < MaxRuns
    /\ LET r == main(fs, a) IN
        /\ fs' = r.fs
        /\ calls' = r.calls
        /\ exitStatus' = r.status
    /\ args' = a
    /\ runs' = runs + 1
    /\ UNCHANGED <<template, orig, reviewVars, truncVars>>

(***************************************************************************)
(*                      reviewer/agent.py: _truncate                       *)
(***************************************************************************)

\* Bounds of the inputs of _truncate.
MaxLen == 3
MaxBudget == 4

Alphabet == {"a", "b"}
Texts == UNION {[1..n -> Alphabet] : n \in 0..MaxLen}

\* "\n\n... [truncated to fit token limit]"
TRUNCATION_NOTICE ==
    <<"\n", "\n", ".", ".", ".", " ", "[", "t", "r", "u", "n", "c", "a", "t", "e", "d",
      " ", "t", "o", " ", "f", "i", "t", " ", "t", "o", "k", "e", "n", " ",
      "l", "i", "m", "i", "t", "]">>

\* Faulty variant of _truncate: "<" for "<=".
_truncate_strict(t, b) ==
    IF Len(t) < b THEN t ELSE SubSeq(t, 1, Min(b, Len(t))) \o TRUNCATION_NOTICE

\* _truncate(text, budget), for a budget >= 0.
_truncate(t, b) ==
    IF Len(t) <= b THEN t ELSE SubSeq(t, 1, b) \o TRUNCATION_NOTICE

\* The length of _truncate(text, budget) for a text of n characters.
TruncatedLen(n, b) ==
    IF n <= b THEN n ELSE b + Len(TRUNCATION_NOTICE)

TruncIdle ==
    /\ text = <<>>
    /\ budget = 0
    /\ out = <<>>
    /\ tpc = "idle"

InitTrunc ==
    /\ text \in Texts
    /\ budget \in 0..MaxBudget
    /\ out = <<>>
    /\ tpc = "input"

Truncate ==
    /\ tpc = "input"
    /\ out' = _truncate(text, budget)
    /\ tpc' = "output"
    /\ UNCHANGED <<text, budget, hookVars, reviewVars>>

(***************************************************************************)
(*                      reviewer/config.py                                 *)
(***************************************************************************)

\* LLM_PROVIDER: any value but "azure" and "github" selects the OpenAI client.
Providers == {"azure", "github", "openai", "ollama"}
ListedModels == {"gpt-4o", "gpt-4o-mini", "gpt-5", "gpt-5-mini", "gpt-5-nano"}
Models == ListedModels \cup {"my-deployment"}
MaxTokensValues == {1024, 4000, 4096}

\* Credentials are "" when the variable is unset; the OpenAI key is kept as its
\* characters, because the code looks at how it starts.
Placeholder == <<"s", "k", "-", ".", ".", ".">>
OpenAIKeys == {<<>>, Placeholder, Placeholder \o <<"x">>, <<"s", "k", "-", "p", "r", "o", "j">>}

Envs ==
    [LLM_PROVIDER : Providers,
     REVIEWER_MODEL : Models,
     MAX_TOKENS : MaxTokensValues,
     AZURE_API_KEY : {"", "az-key"},
     AZURE_ENDPOINT : {"", "https://res.openai.azure.com/"},
     GITHUB_TOKEN : {"", "ghp_token"},
     OPENAI_API_KEY : OpenAIKeys]

\* Length of the default RUFF_BIN, <project root>/.venv/bin/ruff.
RuffBinLen == 34

(***************************************************************************)
(*                      reviewer/agent.py                                  *)
(***************************************************************************)

_DEFAULT_INPUT_LIMIT == 8000
_DEFAULT_OUTPUT_LIMIT == 4000

\* _MODEL_INPUT_LIMITS.get(model, _DEFAULT_INPUT_LIMIT)
_MODEL_INPUT_LIMITS(model) ==
    CASE model \in {"gpt-4o", "gpt-4o-mini"} -> 8000
      [] model \in {"gpt-5", "gpt-5-mini", "gpt-5-nano"} -> 4000
      [] OTHER -> _DEFAULT_INPUT_LIMIT

\* _MODEL_OUTPUT_LIMITS.get(model, _DEFAULT_OUTPUT_LIMIT)
_MODEL_OUTPUT_LIMITS(model) ==
    CASE model \in ListedModels -> 4000
      [] OTHER -> _DEFAULT_OUTPUT_LIMIT

\* Faulty variant of _effective_max_output_tokens: the cap, whatever MAX_TOKENS.
_effective_max_output_tokens_cap(e) ==
    IF e.LLM_PROVIDER = "azure" THEN e.MAX_TOKENS
    ELSE _MODEL_OUTPUT_LIMITS(e.REVIEWER_MODEL)

_effective_max_output_tokens(e) ==
    IF e.LLM_PROVIDER = "azure" THEN e.MAX_TOKENS
    ELSE Min(e.MAX_TOKENS, _MODEL_OUTPUT_LIMITS(e.REVIEWER_MODEL))

_input_char_budget(e) ==
    IF e.LLM_PROVIDER = "azure" THEN 100000
    ELSE LET input_limit == _MODEL_INPUT_LIMITS(e.REVIEWER_MODEL)
             available == Max(input_limit - 400, 500)
         IN  available * 4

\* Faulty variant of SectionBudgets: 80 % for the diff.
SectionBudgets_wide(b) ==
    [diff |-> (b * 80) \div 100, lint |-> (b * 15) \div 100, fmt |-> (b * 15) \div 100]

\* The three section budgets of _build_review_message.  int(budget * 0.70) and
\* int(budget * 0.15) are the exact integer parts for every budget
\* _input_char_budget returns (100000, 30400, 14400).
SectionBudgets(b) ==
    [diff |-> (b * 70) \div 100, lint |-> (b * 15) \div 100, fmt |-> (b * 15) \div 100]

\* Characters of the literal text of the f-string of _build_review_message.
ScaffoldLen == 156

\* chr(10).join("- " + f for f in changed_files): its length.
RECURSIVE BulletsLen(_)
BulletsLen(files) ==
    IF files = <<>> THEN 0
    ELSE 2 + Head(files).len + (IF Len(files) > 1 THEN 1 ELSE 0) + BulletsLen(Tail(files))

\* _build_review_message(commit, lint, fmt): the budgets used and the length of
\* the message.
_build_review_message(e, c, l, f) ==
    LET b == _input_char_budget(e)
        s == SectionBudgets(b)
    IN  [built |-> TRUE,
         budget |-> b,
         sections |-> s,
         len |-> ScaffoldLen + Min(c.sha, 10) + c.message + BulletsLen(c.changed_files)
                    + TruncatedLen(c.diff, s.diff)
                    + TruncatedLen(l.len, s.lint)
                    + TruncatedLen(f.len, s.fmt)]

StartsWith(s, p) == Len(s) >= Len(p) /\ SubSeq(s, 1, Len(p)) = p

\* The messages of the RuntimeErrors of _build_model_client.
AzureError == "AZURE_ENDPOINT and AZURE_API_KEY must be set in .env when LLM_PROVIDER=azure."
GithubError == "GITHUB_TOKEN is not set. Add a GitHub PAT to .env (needs Copilot access)."
OpenAIError == "OPENAI_API_KEY is not set. Copy .env.example to .env and add your key."

\* Faulty variant of ClientError: azure is refused only when both are unset.
ClientError_both(e) ==
    IF e.LLM_PROVIDER = "azure"
    THEN IF e.AZURE_API_KEY = "" /\ e.AZURE_ENDPOINT = "" THEN AzureError ELSE ""
    ELSE IF e.LLM_PROVIDER = "github"
    THEN IF e.GITHUB_TOKEN = "" THEN GithubError ELSE ""
    ELSE IF e.OPENAI_API_KEY = <<>> \/ StartsWith(e.OPENAI_API_KEY, Placeholder)
         THEN OpenAIError ELSE ""

\* The message of the RuntimeError _build_model_client raises, "" when it
\* raises none.
ClientError(e) ==
    IF e.LLM_PROVIDER = "azure"
    THEN IF e.AZURE_API_KEY = "" \/ e.AZURE_ENDPOINT = "" THEN AzureError ELSE ""
    ELSE IF e.LLM_PROVIDER = "github"
    THEN IF e.GITHUB_TOKEN = "" THEN GithubError ELSE ""
    ELSE IF e.OPENAI_API_KEY = <<>> \/ StartsWith(e.OPENAI_API_KEY, Placeholder)
         THEN OpenAIError ELSE ""

NoClient == [built |-> FALSE, model |-> "", backend |-> "", max_tokens |-> 0]

\* _build_model_client(): the client it returns when it raises nothing.
_build_model_client(e) ==
    [built |-> TRUE,
     model |-> e.REVIEWER_MODEL,
     backend |-> IF e.LLM_PROVIDER \in {"azure", "github"} THEN e.LLM_PROVIDER ELSE "openai",
     max_tokens |-> _effective_max_output_tokens(e)]

(***************************************************************************)
(*                      reviewer/diff_collector.py                         *)
(***************************************************************************)

\* Files of the commit: name, extension, length of the name; and the files
\* that exist in the work tree after the commit.
FileA == [name |-> "a.py", ext |-> ".py", len |-> 4]
FileGone == [name |-> "gone.py", ext |-> ".py", len |-> 7]
FileReadme == [name |-> "README.md", ext |-> ".md", len |-> 9]
Worktree == {"a.py", "README.md"}

\* What the git commands print (lengths of the stripped outputs): rev-parse,
\* log, diff HEAD~1 HEAD, diff --name-only, diff --cached HEAD, show --stat.
GitOutputs ==
    {[sha |-> 0, message |-> 0, diff |-> 0, names |-> <<>>, cached |-> 0, stat |-> 0]}
    \cup
    [sha : {40}, message : {60},
     diff : {10080, 10081, 70001},
     names : {<<>>, <<FileA>>, <<FileReadme, FileGone>>},
     cached : {0}, stat : {0}]
    \cup
    [sha : {40}, message : {60}, diff : {0},
     names : {<<>>},
     cached : {0, 21281}, stat : {0}]
    \cup
    [sha : {40}, message : {60}, diff : {0},
     names : {<<>>},
     cached : {0}, stat : {300}]

NoCommit == [sha |-> 0, message |-> 0, diff |-> 0, changed_files |-> <<>>]

\* get_latest_commit_info(repo_path) when no git command raises: the
\* CommitInfo, and the number of git subprocesses run.
get_latest_commit_info(g) ==
    LET diff1 == g.diff
        diff2 == IF diff1 = 0 THEN g.cached ELSE diff1
        diff3 == IF diff2 = 0 THEN g.stat ELSE diff2
    IN  [commit |-> [sha |-> g.sha, message |-> g.message, diff |-> diff3,
                     changed_files |-> g.names],
         git |-> 4 + (IF diff1 = 0 THEN 1 ELSE 0) + (IF diff2 = 0 THEN 1 ELSE 0)]

(***************************************************************************)
(*                      reviewer/lint_runner.py                            *)
(***************************************************************************)

LintSkippedLen == 42
FormatSkippedLen == 47
AllPassedLen == 19
RuffTimeoutLen == 26
RuffNotFoundLen == 18 + RuffBinLen + 37

\* _filter_python_files(repo_path, files)
RECURSIVE _filter_python_files(_)
_filter_python_files(files) ==
    IF files = <<>> THEN <<>>
    ELSE (IF Head(files).ext = ".py" /\ Head(files).name \in Worktree
          THEN <<Head(files)>> ELSE <<>>) \o _filter_python_files(Tail(files))

\* What running ruff can end in: it prints n characters, the binary is
\* missing, or it runs over its 60 s.
RuffOutcomes ==
    [kind : {"output"}, n : {0, 2161, 15001}]
    \cup [kind : {"FileNotFoundError", "TimeoutExpired"}, n : {0}]

\* _invoke_ruff(extra_args, repo_path, files): the text returned.
_invoke_ruff(o) ==
    CASE o.kind = "FileNotFoundError" -> [kind |-> "ruff not found", len |-> RuffNotFoundLen]
      [] o.kind = "TimeoutExpired" -> [kind |-> "ruff timed out", len |-> RuffTimeoutLen]
      [] o.n = 0 -> [kind |-> "all checks passed", len |-> AllPassedLen]
      [] OTHER -> [kind |-> "output", len |-> o.n]

NoText == [kind |-> "none", len |-> 0]

(***************************************************************************)
(*                      reviewer/agent.py: run_review and main             *)
(***************************************************************************)

NoMessage ==
    [built |-> FALSE, budget |-> 0, sections |-> [diff |-> 0, lint |-> 0, fmt |-> 0],
     len |-> 0]
NoEffects == [git |-> 0, ruff |-> 0, net |-> 0]

ReviewIdle ==
    /\ env = [LLM_PROVIDER |-> "azure", REVIEWER_MODEL |-> "gpt-5", MAX_TOKENS |-> 4096,
              AZURE_API_KEY |-> "", AZURE_ENDPOINT |-> "", GITHUB_TOKEN |-> "",
              OPENAI_API_KEY |-> <<>>]
    /\ pc = "idle"
    /\ client = NoClient
    /\ commit = NoCommit
    /\ lint = NoText
    /\ fmt = NoText
    /\ message = NoMessage
    /\ result = <<>>
    /\ raised = "none"
    /\ effects = NoEffects
    /\ printed = <<>>

InitReview ==
    /\ env \in Envs
    /\ pc = "start"
    /\ client = NoClient
    /\ commit = NoCommit
    /\ lint = NoText
    /\ fmt = NoText
    /\ message = NoMessage
    /\ result = <<>>
    /\ raised = "none"
    /\ effects = NoEffects
    /\ printed = <<>>

\* run_review, lines 183-186: build the client, or return the error string.
BuildClient ==
    /\ pc = "start"
    /\ IF ClientError(env) # ""
       THEN /\ result' = <<"ERROR: ", ClientError(env)>>
            /\ pc' = "returned"
            /\ UNCHANGED client
       ELSE /\ client' = _build_model_client(env)
            /\ pc' = "collect"
            /\ UNCHANGED result
    /\ UNCHANGED <<env, commit, lint, fmt, message, raised, effects, printed>>
    /\ UNCHANGED <<hookVars, truncVars>>

\* run_review, line 189: every git command returns.
CollectCommit(g) ==
    /\ pc = "collect"
    /\ LET r == get_latest_commit_info(g) IN
        /\ commit' = r.commit
        /\ effects' = [effects EXCEPT !.git = @ + r.git]
    /\ pc' = "lint"
    /\ UNCHANGED <<env, client, lint, fmt, message, result, raised, printed>>
    /\ UNCHANGED <<hookVars, truncVars>>

\* run_review, line 189: subprocess.run raises in the k-th git command (git is
\* not installed, or the command runs over its 30 s); nothing catches it.
CollectCommitRaises(x, k) ==
    /\ pc = "collect"
    /\ x = "FileNotFoundError" => k = 1
    /\ effects' = [effects EXCEPT !.git = @ + k]
    /\ raised' = x
    /\ pc' = "crashed"
    /\ UNCHANGED <<env, client, commit, lint, fmt, message, result, printed>>
    /\ UNCHANGED <<hookVars, truncVars>>

\* run_review, line 190: run_ruff_check.
RunRuffCheck ==
    /\ pc = "lint"
    /\ IF _filter_python_files(commit.changed_files) = <<>>
       THEN /\ lint' = [kind |-> "skipped", len |-> LintSkippedLen]
            /\ UNCHANGED effects
       ELSE \E o \in RuffOutcomes :
            /\ lint' = _invoke_ruff(o)
            /\ effects' = [effects EXCEPT !.ruff = @ + 1]
    /\ pc' = "format"
    /\ UNCHANGED <<env, client, commit, fmt, message, result, raised, printed>>
    /\ UNCHANGED <<hookVars, truncVars>>

\* run_review, line 191: run_ruff_format_check.
RunRuffFormatCheck ==
    /\ pc = "format"
    /\ IF _filter_python_files(commit.changed_files) = <<>>
       THEN /\ fmt' = [kind |-> "skipped", len |-> FormatSkippedLen]
            /\ UNCHANGED effects
       ELSE \E o \in RuffOutcomes :
            /\ fmt' = _invoke_ruff(o)
            /\ effects' = [effects EXCEPT !.ruff = @ + 1]
    /\ pc' = "review"
    /\ UNCHANGED <<env, client, commit, lint, message, result, raised, printed>>
    /\ UNCHANGED <<hookVars, truncVars>>

\* What team.run can end in: a message of the reviewer with text, none (or an
\* empty one), or an exception of the model call.
ModelOutcomes == {"review", "empty", "exception"}

\* run_review, lines 194-218: build the message, call the model, return the
\* review.  An exception of team.run is caught nowhere.
CallModel(o) ==
    /\ pc = "review"
    /\ message' = _build_review_message(env, commit, lint, fmt)
    /\ effects' = [effects EXCEPT !.net = @ + 1]
    /\ IF o = "exception"
       THEN /\ raised' = "model call failed"
            /\ pc' = "crashed"
            /\ UNCHANGED result
       ELSE /\ result' = IF o = "review" THEN <<"review text">>
                         ELSE <<"No review generated.">>
            /\ pc' = "returned"
            /\ UNCHANGED raised
    /\ UNCHANGED <<env, client, commit, lint, fmt, printed>>
    /\ UNCHANGED <<hookVars, truncVars>>

\* main, lines 226-227: print what run_review returned.
PrintReview ==
    /\ pc = "returned"
    /\ printed' = result
    /\ pc' = "exited"
    /\ UNCHANGED <<env, client, commit, lint, fmt, message, result, raised, effects>>
    /\ UNCHANGED <<hookVars, truncVars>>

(***************************************************************************)
(*                      Specifications                                     *)
(***************************************************************************)

\* One run of the review pipeline.
Init == InitReview /\ HookIdle /\ TruncIdle

Next ==
    \/ BuildClient
    \/ \E g \in GitOutputs : CollectCommit(g)
    \/ \E x \in {"FileNotFoundError", "TimeoutExpired"}, k \in 1..4 : CollectCommitRaises(x, k)
    \/ RunRuffCheck
    \/ RunRuffFormatCheck
    \/ \E o \in ModelOutcomes : CallModel(o)
    \/ PrintReview

Spec == Init /\ [][Next]_vars

\* Runs of the installer.
InitInstaller == InitHook /\ ReviewIdle /\ TruncIdle

NextHook == \E a \in Args : Main(a)

SpecHook == InitInstaller /\ [][NextHook]_vars

\* Calls of _truncate.
InitTruncate == InitTrunc /\ HookIdle /\ ReviewIdle

NextTrunc == Truncate

SpecTrunc == InitTruncate /\ [][NextTrunc]_vars

(***************************************************************************)
(*                      Properties                                         *)
(***************************************************************************)

IsPrefix(p, s) == Len(p) <= Len(s) /\ SubSeq(s, 1, Len(p)) = p
MarkerCount(content) == Cardinality({i \in 1..Len(content) : content[i] = MARKER})
Occurrences(sub, s) ==
    Cardinality({i \in 1..(Len(s) - Len(sub) + 1) : SubSeq(s, i, i + Len(sub) - 1) = sub})

\* C1: install_hook is idempotent.  Whatever the hook of a repository was (no
\* file, a hook without the marker, a hook with it), once a run of the
\* installer has installed into it, installing again changes nothing, and the
\* hook file holds the marker and the rendered reviewer hook exactly once each.
C1_InstallIdempotent ==
    (runs > 0 /\ ~args.uninstall) =>
        \A i \in 1..Len(calls) :
            LET r == calls[i].repo IN
            /\ install_hook(fs, r) = fs
            /\ MarkerCount(fs[r].hook.content) = 1
            /\ Occurrences(_rendered_hook, fs[r].hook.content) = 1

\* C5: a run of the installer with --uninstall leaves every hook file that
\* lacks the marker as it was (still there, same content, same mode), and no
\* run deletes a hook file that lacks the marker.
C5_UninstallKeepsForeignHook ==
    [][runs' = runs + 1 =>
        \A r \in Repos :
            /\ (args'.uninstall /\ fs[r].hook.exists /\ ~HasMarker(fs[r].hook.content))
                   => fs'[r] = fs[r]
            /\ (fs[r].hook.exists /\ ~fs'[r].hook.exists)
                   => (args'.uninstall /\ HasMarker(fs[r].hook.content))]_vars

\* A run with --uninstall has called uninstall_hook on a repository whose hook
\* lacks the marker, and the hook is still there.
C5_Witness ==
    /\ runs > 0
    /\ args.uninstall
    /\ \E i \in 1..Len(calls) :
        /\ calls[i].op = "uninstall"
        /\ calls[i].printed = "skipped"
        /\ fs[calls[i].repo].hook.exists
        /\ fs[calls[i].repo].hook.content = UserHook

\* C7 as stated: whenever a run of main makes no hook action (the list is
\* empty, or every listed path lacks .git), it exits with status 1.
C7_ExitOneWhenNoHookAction ==
    (runs > 0 /\ calls = <<>>) => exitStatus = 1

\* C7 as amended: main exits with status 1 exactly when no repository path is
\* listed (no positional path, and --scan absent or finding no child with a
\* .git entry) or the --scan directory cannot be listed, and then makes no
\* install or uninstall; when paths are listed but every one lacks .git, it
\* makes no install or uninstall either and exits with status 0.  Only
\* directories with a .git entry get a hook action.
C7_ExitOneIffNothingListed ==
    [][runs' = runs + 1 =>
        LET a == args'
            kids == IF a.scan = NoScan THEN <<>> ELSE Children(a.scan)
            scanFinds == \E i \in 1..Len(kids) : fs[kids[i]].git
            listed == a.repos # <<>> \/ scanFinds
            someGit == scanFinds \/ \E i \in 1..Len(a.repos) : fs[Resolve(a.repos[i])].git
        IN  /\ exitStatus' = 1 <=> (a.scan = MissingDir \/ ~listed)
            /\ exitStatus' \in {0, 1}
            /\ exitStatus' = 1 => (fs' = fs /\ calls' = <<>>)
            /\ (exitStatus' = 0 /\ ~someGit) => (fs' = fs /\ calls' = <<>>)
            /\ \A i \in 1..Len(calls') : fs[calls'[i].repo].git]_vars

\* A run listed paths, none of them a git repository: nothing was done and the
\* exit status is 0.
C7_Witness ==
    /\ runs > 0
    /\ args.repos # <<>>
    /\ \A i \in 1..Len(args.repos) : ~fs[Resolve(args.repos[i])].git
    /\ args.scan = NoScan
    /\ calls = <<>>
    /\ exitStatus = 0

\* C8: a post-commit hook that was there without the marker before the
\* installer first ran survives every sequence of installs and uninstalls:
\* the hook file exists and starts with the original content.
C8_OriginalHookKept ==
    \A r \in Repos :
        (orig[r].hook.exists /\ ~HasMarker(orig[r].hook.content))
            => (fs[r].hook.exists /\ IsPrefix(orig[r].hook.content, fs[r].hook.content))

\* Length of "\n\n... [truncated to fit token limit]".
NoticeLen == 36

\* C3: _truncate(text, budget) is text when len(text) <= budget; otherwise it
\* is the first budget characters of text followed by the truncation notice,
\* budget + 36 characters in all.
C3_Truncate ==
    tpc = "output" =>
        /\ Len(text) <= budget => out = text
        /\ Len(text) > budget =>
            /\ Len(out) = budget + NoticeLen
            /\ \A i \in 1..budget : out[i] = text[i]
            /\ \A j \in 1..NoticeLen : out[budget + j] = TRUNCATION_NOTICE[j]
            /\ Len(out) = TruncatedLen(Len(text), budget)

\* _truncate has cut a text longer than a positive budget.
C3_Witness ==
    /\ tpc = "output"
    /\ budget > 0
    /\ Len(text) > budget
    /\ out # text

\* The credentials the selected provider needs are missing.
CredentialsMissing(e) ==
    CASE e.LLM_PROVIDER = "azure" -> e.AZURE_API_KEY = "" \/ e.AZURE_ENDPOINT = ""
      [] e.LLM_PROVIDER = "github" -> e.GITHUB_TOKEN = ""
      [] OTHER -> \/ Len(e.OPENAI_API_KEY) = 0
                  \/ /\ Len(e.OPENAI_API_KEY) >= 6
                     /\ \A i \in 1..6 : e.OPENAI_API_KEY[i] = Placeholder[i]

\* C2: with the credentials of the selected provider missing, run_review
\* returns "ERROR: " followed by that provider's message, raises nothing,
\* builds no client and runs no git command, no linter and no network call;
\* main prints the error string.
C2_MissingCredentials ==
    (CredentialsMissing(env) /\ pc # "start") =>
        /\ pc \in {"returned", "exited"}
        /\ result = <<"ERROR: ",
                      CASE env.LLM_PROVIDER = "azure" -> AzureError
                        [] env.LLM_PROVIDER = "github" -> GithubError
                        [] OTHER -> OpenAIError>>
        /\ raised = "none"
        /\ ~client.built
        /\ effects = NoEffects
        /\ ~message.built
        /\ pc = "exited" => printed = result

\* A run with a provider that is neither azure nor github and with the
\* placeholder OpenAI key has ended with the error printed.
C2_Witness ==
    /\ pc = "exited"
    /\ env.LLM_PROVIDER = "ollama"
    /\ StartsWith(env.OPENAI_API_KEY, Placeholder)
    /\ printed = <<"ERROR: ", OpenAIError>>
    /\ effects = NoEffects

\* Tokens reserved for the system prompt and the scaffolding (agent.py:89).
ReserveTokens == 400

\* C4: the user message fits the model's input limit: its length plus the
\* reserve of 400 tokens (1600 characters) is at most 4 characters per token
\* times the input-token limit of the model; for azure the message is at most
\* 100000 characters.
C4_MessageWithinLimit ==
    message.built =>
        IF env.LLM_PROVIDER = "azure"
        THEN message.len <= 100000
        ELSE message.len + 4 * ReserveTokens <= 4 * _MODEL_INPUT_LIMITS(env.REVIEWER_MODEL)

\* C6: a run of run_review never ends in an uncaught exception: whatever
\* fails (git, the linter, the model call), it returns text, which main
\* prints.
C6_NoUncaughtException ==
    /\ raised = "none"
    /\ pc # "crashed"
    /\ pc = "exited" => (printed = result /\ result # <<>>)

\* C9: the character budget is at least 2000 (100000 for azure, otherwise
\* 4 * max(input_limit - 400, 500)); the section budgets are 70 %, 15 % and
\* 15 % of it rounded down, all positive, and sum to at most the budget.
C9_BudgetsPositive ==
    LET b == _input_char_budget(env)
        s == SectionBudgets(b)
        limit == IF env.REVIEWER_MODEL \in {"gpt-5", "gpt-5-mini", "gpt-5-nano"}
                 THEN 4000 ELSE 8000
    IN  /\ b >= 2000
        /\ b = IF env.LLM_PROVIDER = "azure" THEN 100000
               ELSE 4 * (IF limit - 400 >= 500 THEN limit - 400 ELSE 500)
        /\ s.diff * 100 <= b * 70 /\ b * 70 < (s.diff + 1) * 100
        /\ s.lint * 100 <= b * 15 /\ b * 15 < (s.lint + 1) * 100
        /\ s.fmt * 100 <= b * 15 /\ b * 15 < (s.fmt + 1) * 100
        /\ s.diff > 0 /\ s.lint > 0 /\ s.fmt > 0
        /\ s.diff + s.lint + s.fmt <= b
        /\ message.built => (message.budget = b /\ message.sections = s)

\* A message was built for a model that is not in the table.
C9_Witness ==
    /\ message.built
    /\ env.LLM_PROVIDER = "github"
    /\ env.REVIEWER_MODEL \notin ListedModels
    /\ message.budget = 30400
    /\ message.sections.diff = 21280

\* The output cap of every model of the table, and of a model not in it.
OutputCap == 4000

====
